---- MODULE Spec2Model ----
(***************************************************************************)
(* Model of main.py: the search-and-scrape news pipeline                   *)
(* (get_latest_tech_news_with_scraping, summarize_text_with_gemini),       *)
(* the HTML renderer, the mailer (send_email) and the __main__ block.      *)
(* The program is single-threaded; pc is the position of its one thread.   *)
(***************************************************************************)
EXTENDS Integers, Sequences, FiniteSets

\* ---------------------------------------------------------------- bounds
NumUrls == 3          \* distinct URLs the searcher can yield
MaxResults == 4       \* URLs the searcher yields in one run (num_results ceiling)

\* ------------------------------------------------------ program constants
MinContentLen == 300       \* main.py:88, len(article_text) > 300
DefaultNumArticles == 3    \* main.py:64, num_articles=3

Urls == 1..NumUrls
\* values of num_articles tried, the default (the one __main__ uses) included
TargetCounts == 0..DefaultNumArticles

\* os.environ.get gives None when the variable is unset, else its value
None == "None"
ConfigValues == {None, "secret"}

\* Python truthiness of a configuration value: None and '' are falsy
Truthy(v) == v # None /\ v # ""

\* status codes a page GET can end with (requests.get does not raise on them)
StatusCodes == {200, 404}
Is2xx(s) == s >= 200 /\ s < 300

\* lengths of the newline-joined paragraph text that the model tries
BodyLengths == {250, 300, 301, 350}

\* what json.loads(json_string) can give back when the POST succeeded:
\* a dict with some of the two keys (the empty dict is falsy)
SummaryDicts == {{"one_liner", "summary"}, {}}

VARIABLES
    GEMINI_API_KEY, SENDER_EMAIL, SENDER_PASSWORD, RECIPIENT_EMAIL,
    num_articles,   \* parameter of get_latest_tech_news_with_scraping
    pc,             \* position of the thread
    articles,       \* the list being built, then the list main holds
    urls_processed, \* set of URLs already taken up in this run
    url,            \* loop variable
    status,         \* response.status_code of the last page GET
    text_len,       \* len(article_text) of the last parsed page
    smtpOpen,       \* an SMTP session is open
    html_news,      \* the rendered digest handed to send_email
    log,            \* kinds of message printed so far
    \* observation of the run (not read by the program)
    pulled,         \* URLs drawn from the searcher's generator
    fetched,        \* URLs a page GET was issued for
    numFetches,     \* page GETs issued
    mailerCalls,    \* calls of send_email
    smtpConnects,   \* SMTP connections attempted
    smtpFailure     \* which SMTP step failed, if any

config == <<GEMINI_API_KEY, SENDER_EMAIL, SENDER_PASSWORD, RECIPIENT_EMAIL>>
locals == <<url, status, text_len>>
driverObs == <<pulled, fetched, numFetches>>
mailObs == <<mailerCalls, smtpConnects, smtpFailure>>
vars == <<config, num_articles, pc, articles, urls_processed, locals, smtpOpen,
          html_news, log, driverObs, mailObs>>

Init ==
    /\ GEMINI_API_KEY \in ConfigValues
    /\ SENDER_EMAIL \in ConfigValues
    /\ SENDER_PASSWORD \in ConfigValues
    /\ RECIPIENT_EMAIL \in ConfigValues
    /\ num_articles \in TargetCounts
    /\ pc = "for"
    /\ articles = <<>>
    /\ urls_processed = {}
    /\ url = 0 /\ status = 0 /\ text_len = 0
    /\ smtpOpen = FALSE
    /\ html_news = <<>>
    /\ log = {}
    /\ pulled = 0 /\ fetched = {} /\ numFetches = 0
    /\ mailerCalls = 0 /\ smtpConnects = 0 /\ smtpFailure = "none"

\* ------------------------------------------------------------------------
\* get_latest_tech_news_with_scraping
\* ------------------------------------------------------------------------

\* line 73 without the count test: the loop never stops taking URLs up
SkipUrl_NoCap(u) == u \in urls_processed

\* line 73 without the membership test: a repeated URL is taken up again
SkipUrl_NoDedup(u) == Len(articles) >= num_articles

\* line 73: the URL is skipped (continue) when the list is full or the URL
\* was taken up before
SkipUrl(u) == Len(articles) >= num_articles \/ u \in urls_processed

\* line 88 written with >= : a text of exactly 300 characters passes
EnoughContent_AtLeast(n) == n >= MinContentLen

\* line 88: the length filter
EnoughContent(n) == n > MinContentLen

\* line 90: `if summary_data:` -- None and the empty dict are falsy
SummaryAccepted(d) == d # {}

\* lines 91-96: the appended article; dict.get substitutes the defaults
Article(u, d) ==
    [ one_liner   |-> IF "one_liner" \in d THEN "one_liner" ELSE "",
      summary     |-> IF "summary" \in d THEN "summary" ELSE "Could not summarize.",
      source_link |-> u ]

\* the text of the exception as the handler prints it: only the summarizer's
\* ValueError is told apart from the others
KeyMissing == "GEMINI_API_KEY secret not set"
ErrorText(e) == IF e = KeyMissing THEN KeyMissing ELSE "error"

\* lines 79-98 without the try: the exception leaves the driver
ExceptArticle_Abort(e) ==
    /\ pc' = "aborted"
    /\ log' = log \cup {<<"Traceback", ErrorText(e)>>}
    /\ UNCHANGED articles

\* lines 97-98: the per-URL handler logs and lets the loop go on
ExceptArticle(e) ==
    /\ pc' = "for"
    /\ log' = log \cup {<<"Could not process article", ErrorText(e)>>}
    /\ UNCHANGED articles

\* line 72: the generator yields the next URL; line 73-76 decide on it
ForNext(u) ==
    /\ pc = "for"
    /\ pulled < MaxResults
    /\ pulled' = pulled + 1
    /\ url' = u
    /\ IF SkipUrl(u)
         THEN /\ pc' = "for"
              /\ UNCHANGED urls_processed
         ELSE /\ urls_processed' = urls_processed \cup {u}
              /\ pc' = "get"
    /\ UNCHANGED <<config, num_articles, articles, status, text_len, smtpOpen,
                   html_news, log, fetched, numFetches, mailObs>>

\* line 72: the generator is exhausted; line 100 returns the list to line 148
ForExhausted ==
    /\ pc = "for"
    /\ pc' = "main"
    /\ UNCHANGED <<config, num_articles, articles, urls_processed, locals,
                   smtpOpen, html_news, log, driverObs, mailObs>>

\* line 72: the searcher itself raises (it sits outside the try of line 79)
ForSearchRaises ==
    /\ pc = "for"
    /\ pulled < MaxResults
    /\ pc' = "search_error"
    /\ UNCHANGED <<config, num_articles, articles, urls_processed, locals,
                   smtpOpen, html_news, log, driverObs, mailObs>>

\* line 80: requests.get answers with some status code (no raise_for_status)
GetResponds(s) ==
    /\ pc = "get"
    /\ numFetches' = numFetches + 1
    /\ fetched' = fetched \cup {url}
    /\ status' = s
    /\ pc' = "parse"
    /\ UNCHANGED <<config, num_articles, articles, urls_processed, url, text_len,
                   smtpOpen, html_news, log, pulled, mailObs>>

\* line 80: requests.get raises (timeout, connection error)
GetRaises ==
    /\ pc = "get"
    /\ numFetches' = numFetches + 1
    /\ fetched' = fetched \cup {url}
    /\ ExceptArticle("request failed")
    /\ UNCHANGED <<config, num_articles, urls_processed, locals, smtpOpen,
                   html_news, pulled,
                   mailObs>>

\* lines 81-86: the page is parsed and its paragraph text joined
Parse(n) ==
    /\ pc = "parse"
    /\ text_len' = n
    /\ pc' = "check_len"
    /\ UNCHANGED <<config, num_articles, articles, urls_processed, url, status,
                   smtpOpen, html_news, log, driverObs, mailObs>>

\* lines 88-89: the summarizer is called when the text is long enough; else
\* the iteration ends without an article
CheckLen ==
    /\ pc = "check_len"
    /\ IF EnoughContent(text_len)
         THEN pc' = "summarize"
         ELSE pc' = "for"
    /\ UNCHANGED <<config, num_articles, articles, urls_processed, locals,
                   smtpOpen, html_news, log, driverObs, mailObs>>

\* lines 81-86: parsing raises
ParseRaises ==
    /\ pc = "parse"
    /\ ExceptArticle("parse failed")
    /\ UNCHANGED <<config, num_articles, urls_processed, locals, smtpOpen,
                   html_news, pulled, fetched, numFetches, mailObs>>

\* ------------------------------------------------------------------------
\* summarize_text_with_gemini
\* ------------------------------------------------------------------------

\* lines 20-21: the key is missing; the ValueError leaves the function and
\* lands in the caller's handler of line 97
SummarizeNoKey ==
    /\ pc = "summarize"
    /\ ~Truthy(GEMINI_API_KEY)
    /\ ExceptArticle(KeyMissing)
    /\ UNCHANGED <<config, num_articles, urls_processed, locals, smtpOpen,
                   html_news, pulled, fetched, numFetches, mailObs>>

\* lines 53-58 then 90-96: the POST succeeds and its text parses to a dict
SummarizeReturns(d) ==
    /\ pc = "summarize"
    /\ Truthy(GEMINI_API_KEY)
    /\ articles' = IF SummaryAccepted(d) THEN Append(articles, Article(url, d))
                                         ELSE articles
    /\ pc' = "for"
    /\ UNCHANGED <<config, num_articles, urls_processed, locals, smtpOpen,
                   html_news, log, pulled, fetched, numFetches, mailObs>>

\* lines 53-62: the POST times out, answers non-2xx (raise_for_status) or its
\* body does not parse: caught at line 60, logged, None returned;
\* lines 56-59: no candidate, None returned without a log line
SummarizeFails(logged) ==
    /\ pc = "summarize"
    /\ Truthy(GEMINI_API_KEY)
    /\ log' = IF logged THEN log \cup {<<"Error during Gemini summarization">>}
                        ELSE log
    /\ pc' = "for"
    /\ UNCHANGED <<config, num_articles, articles, urls_processed, locals,
                   smtpOpen, html_news, pulled, fetched, numFetches, mailObs>>

\* lines 58 then 93: the text parses to JSON that is no dict (a non-empty
\* list, a string); .get raises AttributeError into the handler of line 97
SummarizeReturnsNonDict ==
    /\ pc = "summarize"
    /\ Truthy(GEMINI_API_KEY)
    /\ ExceptArticle("no attribute get")
    /\ UNCHANGED <<config, num_articles, urls_processed, locals, smtpOpen,
                   html_news, pulled, fetched, numFetches, mailObs>>

\* ------------------------------------------------------------------------
\* format_news_as_html, __main__
\* ------------------------------------------------------------------------

RECURSIVE ArticleBlocks(_)
ArticleBlocks(arts) ==
    IF arts = <<>> THEN <<>>
    ELSE <<[href |-> Head(arts).source_link, one_liner |-> Head(arts).one_liner,
            summary |-> Head(arts).summary]>> \o ArticleBlocks(Tail(arts))

\* lines 102-124
format_news_as_html(arts) ==
    IF arts = <<>> THEN <<"No new articles found today.">>
    ELSE <<"Tech & AI Update">> \o ArticleBlocks(arts)

\* line 149 dropped: the digest is sent whatever the list holds
MainSends_Always == TRUE

\* line 149: `if articles:`
MainSends == articles # <<>>

\* lines 148-153
Main ==
    /\ pc = "main"
    /\ IF MainSends
         THEN /\ html_news' = format_news_as_html(articles)
              /\ mailerCalls' = mailerCalls + 1
              /\ pc' = "send_email"
         ELSE /\ pc' = "exit"
              /\ UNCHANGED <<html_news, mailerCalls>>
    /\ UNCHANGED <<config, num_articles, articles, urls_processed, locals,
                   smtpOpen, log, driverObs, smtpConnects,
                   smtpFailure>>

\* ------------------------------------------------------------------------
\* send_email
\* ------------------------------------------------------------------------

\* line 128 testing the sender's two values only
AllCredentials_NoRecipient == Truthy(SENDER_EMAIL) /\ Truthy(SENDER_PASSWORD)

\* line 128: all([SENDER_EMAIL, SENDER_PASSWORD, RECIPIENT_EMAIL])
AllCredentials ==
    Truthy(SENDER_EMAIL) /\ Truthy(SENDER_PASSWORD) /\ Truthy(RECIPIENT_EMAIL)

\* line 140 without the with block: nothing closes the session
SmtpExit_Leak == smtpOpen' = smtpOpen

\* line 140: leaving the with block closes the session, on every path
SmtpExit == smtpOpen' = FALSE

\* lines 144-145: the handler logs and send_email returns
ExceptMail ==
    /\ log' = log \cup {<<"Error sending email">>}
    /\ pc' = "exit"

\* lines 128-138: the ValueError is raised to __main__, which has no handler
SendEmailCheck ==
    /\ pc = "send_email"
    /\ IF AllCredentials
         THEN /\ pc' = "connect"
              /\ UNCHANGED log
         ELSE /\ pc' = "config_error"
              /\ log' = log \cup {<<"ValueError", "credentials not set">>}
    /\ UNCHANGED <<config, num_articles, articles, urls_processed, locals,
                   smtpOpen, html_news, driverObs, mailObs>>

\* line 140: SMTP_SSL(...) connects
Connect ==
    /\ pc = "connect"
    /\ smtpConnects' = smtpConnects + 1
    /\ smtpOpen' = TRUE
    /\ pc' = "login"
    /\ UNCHANGED <<config, num_articles, articles, urls_processed, locals,
                   html_news, log, driverObs, mailerCalls,
                   smtpFailure>>

\* line 140: SMTP_SSL(...) raises; no session exists
ConnectRaises ==
    /\ pc = "connect"
    /\ smtpConnects' = smtpConnects + 1
    /\ smtpFailure' = "connect"
    /\ ExceptMail
    /\ UNCHANGED <<config, num_articles, articles, urls_processed, locals,
                   smtpOpen, html_news, driverObs, mailerCalls>>

\* line 141
Login ==
    /\ pc = "login"
    /\ pc' = "send_message"
    /\ UNCHANGED <<config, num_articles, articles, urls_processed, locals,
                   smtpOpen, html_news, log, driverObs, mailObs>>

LoginRaises ==
    /\ pc = "login"
    /\ smtpFailure' = "login"
    /\ pc' = "with_exit_exc"
    /\ UNCHANGED <<config, num_articles, articles, urls_processed, locals,
                   smtpOpen, html_news, log, driverObs,
                   mailerCalls, smtpConnects>>

\* line 142
SendMessage ==
    /\ pc = "send_message"
    /\ pc' = "with_exit"
    /\ UNCHANGED <<config, num_articles, articles, urls_processed, locals,
                   smtpOpen, html_news, log, driverObs, mailObs>>

SendMessageRaises ==
    /\ pc = "send_message"
    /\ smtpFailure' = "send"
    /\ pc' = "with_exit_exc"
    /\ UNCHANGED <<config, num_articles, articles, urls_processed, locals,
                   smtpOpen, html_news, log, driverObs,
                   mailerCalls, smtpConnects>>

\* lines 140-143: the block ends normally, the session is closed, success is
\* printed
WithExit ==
    /\ pc = "with_exit"
    /\ SmtpExit
    /\ log' = log \cup {<<"Email sent successfully!">>}
    /\ pc' = "exit"
    /\ UNCHANGED <<config, num_articles, articles, urls_processed, locals,
                   html_news, driverObs, mailObs>>

\* lines 140, 144-145: the block is left by an exception; the session is
\* closed, then the handler runs
WithExitRaising ==
    /\ pc = "with_exit_exc"
    /\ SmtpExit
    /\ ExceptMail
    /\ UNCHANGED <<config, num_articles, articles, urls_processed, locals,
                   html_news, driverObs, mailObs>>

Next ==
    \/ \E u \in Urls : ForNext(u)
    \/ ForExhausted
    \/ ForSearchRaises
    \/ \E s \in StatusCodes : GetResponds(s)
    \/ GetRaises
    \/ \E n \in BodyLengths : Parse(n)
    \/ CheckLen
    \/ ParseRaises
    \/ SummarizeNoKey
    \/ \E d \in SummaryDicts : SummarizeReturns(d)
    \/ \E logged \in BOOLEAN : SummarizeFails(logged)
    \/ SummarizeReturnsNonDict
    \/ Main
    \/ SendEmailCheck
    \/ Connect
    \/ ConnectRaises
    \/ Login
    \/ LoginRaises
    \/ SendMessage
    \/ SendMessageRaises
    \/ WithExit
    \/ WithExitRaising

Spec == Init /\ [][Next]_vars

\* ------------------------------------------------------------------------
\* Properties
\* ------------------------------------------------------------------------

IsPrefix(s, t) == Len(s) <= Len(t) /\ SubSeq(t, 1, Len(s)) = s

\* the thread is between the page GET and the end of the summarizer call
ProcessingPcs == {"get", "parse", "check_len", "summarize"}

\* the thread is inside send_email
MailPcs == {"send_email", "connect", "login", "send_message", "with_exit",
            "with_exit_exc", "config_error"}

AnyCredentialAbsent ==
    SENDER_EMAIL = None \/ SENDER_PASSWORD = None \/ RECIPIENT_EMAIL = None

\* C1: the number of accepted articles never exceeds num_articles, and once
\* it has reached num_articles the driver is never again at a page GET, a
\* parse or a summarizer call: no fetch and no summarizer request is issued.
C1_TargetBound ==
    /\ Len(articles) <= num_articles
    /\ Len(articles) >= num_articles => pc \notin ProcessingPcs

\* C1 witness: the list is full at a positive target, and a URL never seen
\* before was yielded after that and skipped without a fetch.
C1_Witness ==
    /\ pc = "for"
    /\ num_articles > 0
    /\ Len(articles) = num_articles
    /\ url \notin urls_processed
    /\ url \in Urls
    /\ pulled = numFetches + 1

\* C2: every page GET of a run goes to a URL no GET went to before (the
\* number of GETs equals the number of distinct URLs fetched), and no two
\* articles of the list share a source_link.
C2_FetchedOnce ==
    /\ numFetches = Cardinality(fetched)
    /\ \A i, j \in 1..Len(articles) :
          i # j => articles[i].source_link # articles[j].source_link

\* C2 witness: a URL whose processing failed was yielded again while the
\* list was not full, and was skipped: two yields, one fetch, no article.
C2_Witness ==
    /\ pc = "for"
    /\ pulled = 2
    /\ numFetches = 1
    /\ url \in fetched
    /\ <<"Could not process article", "error">> \in log
    /\ articles = <<>>
    /\ num_articles > 0

\* C3: every step taken while a URL is being processed, whatever its outcome
\* (exception of the GET, of the parse, failure of the summarizer), leaves
\* the driver inside its loop and keeps the articles accepted so far, in
\* order; the driver never leaves by an exception of per-URL processing.
C3_FailureContained ==
    [][(pc \in ProcessingPcs) =>
          (pc' \in ProcessingPcs \cup {"for"} /\ IsPrefix(articles, articles'))]_vars

\* C3 witness: the driver returned normally after three URLs were processed,
\* one of which failed with an exception and two of which gave an article.
C3_Witness ==
    /\ pc = "main"
    /\ numFetches = 3
    /\ Len(articles) = 2
    /\ <<"Could not process article", "error">> \in log

\* C4 as stated: the summarizer is called if and only if the text has at
\* least 300 characters.
C4_Original ==
    [][pc = "check_len" =>
          (pc' = "summarize" <=> text_len >= MinContentLen)]_vars

\* C4 amended: the summarizer is called if and only if the text has more
\* than 300 characters; a text of 300 characters or fewer gives no summarizer
\* call and no article, and the driver goes on with the next URL.
C4_Amended ==
    [][pc = "check_len" =>
          ((pc' = "summarize" <=> text_len > MinContentLen)
           /\ (text_len <= MinContentLen => (pc' = "for" /\ articles' = articles)))]_vars

\* C4 witness: the only page of the run so far had exactly 300 characters of
\* text, was scraped without an exception, and gave neither a summarizer
\* call nor an article.
C4_Witness ==
    /\ pc = "for"
    /\ pulled = 1
    /\ numFetches = 1
    /\ text_len = MinContentLen
    /\ log = {}
    /\ articles = <<>>

\* C5: once send_email has run its test with the sender address, the
\* credential or the recipient absent, the call has ended in the
\* configuration error, no SMTP connection was attempted and none is open.
C5_ConfigErrorBeforeNetwork ==
    (mailerCalls > 0 /\ pc # "send_email" /\ AnyCredentialAbsent) =>
        (pc = "config_error" /\ smtpConnects = 0 /\ ~smtpOpen)

\* C5 witness: send_email was called with the recipient unset, the sender
\* and the credential set, and raised.
C5_Witness ==
    /\ pc = "config_error"
    /\ RECIPIENT_EMAIL = None
    /\ SENDER_EMAIL # None
    /\ SENDER_PASSWORD # None

\* C6: send_email is called, and an SMTP connection attempted, only in a run
\* whose driver returned at least one article.
C6_MailOnlyWithArticles ==
    (mailerCalls > 0 \/ smtpConnects > 0 \/ pc \in MailPcs) => Len(articles) >= 1

\* C6 witness: the driver returned articles and a connection was attempted.
C6_Witness ==
    /\ pc = "exit"
    /\ smtpConnects = 1
    /\ mailerCalls = 1
    /\ Len(articles) >= 1

\* C7 as stated: a stage reached with a configuration value it needs absent
\* ends the run in the unhandled configuration error: the summarizer called
\* without the API key, the mailer called without one of its three values.
C7_ConfigErrorTerminates ==
    [][((pc = "summarize" /\ GEMINI_API_KEY = None) => pc' = "config_error")
       /\ ((pc = "send_email" /\ AnyCredentialAbsent) => pc' = "config_error")]_vars

\* C8: when send_email has returned or raised, no SMTP session is open; a
\* session is open only inside the with block; and a failure of connect,
\* login or send is followed by the closing of the session and the logged
\* error, never by an exception leaving send_email.
C8_SessionClosed ==
    /\ pc \in {"exit", "config_error"} => ~smtpOpen
    /\ smtpOpen => pc \in {"login", "send_message", "with_exit", "with_exit_exc"}
    /\ smtpFailure # "none" =>
          /\ pc \in {"with_exit_exc", "exit"}
          /\ pc = "exit" => <<"Error sending email">> \in log

\* C8 witness: send_message failed in an open session and send_email has
\* returned.
C8_Witness ==
    /\ pc = "exit"
    /\ smtpFailure = "send"
    /\ smtpConnects = 1
    /\ ~smtpOpen

\* C9 as stated: an article is appended only for a URL whose page GET ended
\* with a 2xx status (a non-2xx status yields no article).
C9_NoArticleOnHttpError ==
    [][Len(articles') > Len(articles) => Is2xx(status)]_vars

\* C10 as stated: once the list holds num_articles articles (num_articles
\* positive), no further URL is drawn from the searcher.
C10_StopsAtTarget ==
    [][(num_articles > 0 /\ Len(articles) >= num_articles) =>
          pulled' = pulled]_vars

====
